---- MODULE Spec2Model ----
(***************************************************************************)
(* Model of the homework-status bot: src/homework.py (main loop, fetch,    *)
(* validate, interpret, notify) and src/decorators.py (duplicate           *)
(* suppression around send_message).                                       *)
(*                                                                         *)
(* Texts are sequences of string tokens; an f-string is the concatenation  *)
(* of its literal pieces and its formatted values.  The literal pieces of  *)
(* the source are Russian; they are rendered here in ASCII, one distinct   *)
(* ASCII literal per distinct source literal.                              *)
(***************************************************************************)
EXTENDS Integers, Sequences, FiniteSets, TLC

\* Bounds of the model.
MaxTime == 2      \* timestamps (time.time(), current_date) range over 0..MaxTime
MaxItems == 2     \* longest homeworks list a response carries

VARIABLES
    pc,            \* position of main(): "start", "polling", "sleeping", "exited", "crashed"
    env,           \* the three module-level tokens read by os.getenv
    timestamp,     \* main()'s local variable timestamp (the cursor)
    last_message,  \* the decorator's nonlocal last_message
    delivered,     \* ghost: text of the most recent outbound call the channel accepted
    prev,          \* ghost: the cursor passed to the last check_homework_status call
    prevLast,      \* ghost: last_message before that call
    net,           \* ghost: what the network gave requests.get in that call
    notifies,      \* ghost: the send_message calls made in that call
    pending,       \* ghost of RetrySpec: the item whose status notification failed
    calls          \* ghost of NotifierSpec: the last two send_message calls

vars == <<pc, env, timestamp, last_message, delivered, prev, prevLast, net,
          notifies, pending, calls>>

----------------------------------------------------------------------------
\* Values

\* A JSON / Python scalar that can be held as the cursor.
IntVal(n) == [type |-> "int", val |-> n]
Null == [type |-> "NoneType", val |-> 0]
Unbound == [type |-> "unbound", val |-> 0]
Times == {IntVal(n) : n \in 0..MaxTime}

\* str() of a cursor value inside an f-string.
Fmt(v) == IF v.type = "int" THEN ToString(v.val) ELSE "None"

\* Optional text: Python None or a str.
NoMessage == [some |-> FALSE, text |-> <<>>]
Some(text) == [some |-> TRUE, text |-> text]

\* Outcome of a call: a returned value or a raised exception.
Return(v) == [raised |-> FALSE, value |-> v]
Raise(type, text) == [raised |-> TRUE, exc |-> [type |-> type, text |-> text]]

\* str(error): KeyError shows the repr of its argument, the others the argument.
Str(exc) == IF exc.type = "KeyError" THEN <<"'">> \o exc.text \o <<"'">> ELSE exc.text

RECURSIVE Join(_)
Join(keys) ==
    IF keys = <<>> THEN <<>>
    ELSE IF Len(keys) = 1 THEN <<keys[1]>>
    ELSE <<keys[1], ", ">> \o Join(Tail(keys))

----------------------------------------------------------------------------
\* Program constants

ENDPOINT == "https://practicum.yandex.ru/api/user_api/homework_statuses/"
HTTP_OK == 200
TokenNames == {"PRACTICUM_TOKEN", "TELEGRAM_TOKEN", "TELEGRAM_CHAT_ID"}

HOMEWORK_VERDICTS ==
    [approved |-> "Work checked: the reviewer liked everything. Hooray!",
     reviewing |-> "Work taken for review by the reviewer.",
     rejected |-> "Work checked: the reviewer has remarks."]

----------------------------------------------------------------------------
\* Inputs the environment can supply

\* os.getenv gives None for an unset variable, otherwise its string.
EnvValues == {"<unset>", "", "secret"}

Names == {"x"}
KnownStatuses == DOMAIN HOMEWORK_VERDICTS
Statuses == KnownStatuses \cup {"unknown", "Approved"}

\* One element of the homeworks list: a JSON object with some of the two
\* keys, or a JSON value that is no object.
DictItem(keys, name, status) ==
    [type |-> "dict", keys |-> keys, homework_name |-> name, status |-> status]
StrItem == [type |-> "str", keys |-> {}, homework_name |-> "", status |-> ""]
FullItems == {DictItem({"homework_name", "status"}, n, s) : n \in Names, s \in Statuses}
Items ==
    FullItems
    \cup {StrItem, DictItem({}, "", ""), DictItem({"status"}, "", "approved")}
    \cup {DictItem({"homework_name"}, n, "") : n \in Names}

\* Items that follow the first one in a list.
TailItems ==
    {StrItem,
     DictItem({"homework_name", "status"}, "x", "approved"),
     DictItem({"homework_name", "status"}, "x", "unknown")}

RECURSIVE SeqsUpTo(_, _)
SeqsUpTo(S, n) ==
    IF n <= 0 THEN {<<>>}
    ELSE LET shorter == SeqsUpTo(S, n - 1)
         IN shorter \cup {Append(q, x) : q \in shorter, x \in S}

ItemLists ==
    {<<>>} \cup {<<first>> \o rest : first \in Items, rest \in SeqsUpTo(TailItems, MaxItems - 1)}

\* The value under "homeworks": a list of items, or something that is no list.
ListOf(items) == [type |-> "list", items |-> items]
NotAList == [type |-> "dict", items |-> <<>>]

\* The value under "current_date".
Dates == Times \cup {Null}

\* The decoded body of a reply: a JSON object with some of the keys
\* homeworks and current_date, a JSON value that is no object, or a body
\* response.json() cannot decode.
DictBody(keys, homeworks, current_date) ==
    [type |-> "dict", keys |-> keys, homeworks |-> homeworks, current_date |-> current_date]
ListBody == [type |-> "list", keys |-> {}, homeworks |-> NotAList, current_date |-> Null]
Undecodable == [type |-> "undecodable", keys |-> {}, homeworks |-> NotAList, current_date |-> Null]
Bodies ==
    {DictBody({"homeworks", "current_date"}, ListOf(l), d) : l \in ItemLists, d \in Dates}
    \cup {DictBody({"homeworks"}, ListOf(l), Null) : l \in ItemLists}
    \cup {DictBody({"homeworks", "current_date"}, NotAList, IntVal(MaxTime)),
          DictBody({"current_date"}, NotAList, IntVal(MaxTime)),
          DictBody({}, NotAList, Null),
          ListBody, Undecodable}

\* What requests.get meets: a transport failure or a reply with a status code.
Reply(status_code, body) == [kind |-> "reply", status_code |-> status_code, body |-> body]
TransportFailure == [kind |-> "RequestException", status_code |-> 0, body |-> ListBody]
NetOutcomes ==
    {TransportFailure, Reply(500, ListBody)} \cup {Reply(HTTP_OK, b) : b \in Bodies}
NoNet == [kind |-> "none", status_code |-> 0, body |-> ListBody]

\* What bot.send_message meets: delivery, or an exception of one of the two
\* families the messaging libraries raise (telebot.apihelper.ApiException,
\* requests.exceptions.RequestException).
BotOutcomes == {"ok", "ApiException", "RequestException"}

----------------------------------------------------------------------------
\* src/homework.py

\* Variant of check_tokens: tests "is None" instead of falsiness.
check_tokens_unset_only(tokens) ==
    LET names == <<"PRACTICUM_TOKEN", "TELEGRAM_TOKEN", "TELEGRAM_CHAT_ID">>
        missing == SelectSeq(names, LAMBDA key : tokens[key] = "<unset>")
    IN IF missing # <<>>
       THEN Raise("ValueError",
                  <<"Required environment variables are missing: ">> \o Join(missing))
       ELSE Return(TRUE)

\* check_tokens: raises ValueError naming the tokens that are falsy.
check_tokens(tokens) ==
    LET names == <<"PRACTICUM_TOKEN", "TELEGRAM_TOKEN", "TELEGRAM_CHAT_ID">>
        missing == SelectSeq(names, LAMBDA key : tokens[key] \in {"<unset>", ""})
    IN IF missing # <<>>
       THEN Raise("ValueError",
                  <<"Required environment variables are missing: ">> \o Join(missing))
       ELSE Return(TRUE)

\* get_api_answer.  APIError (imported from the module exceptions) is taken
\* to derive from Exception, as ConnectionError and the decode error do.
get_api_answer(ts, n) ==
    IF n.kind = "RequestException"
    THEN Raise("ConnectionError",
               <<"API request error: ", "RequestException", ". URL: ", ENDPOINT,
                 ", timestamp: ", Fmt(ts)>>)
    ELSE IF n.status_code # HTTP_OK
    THEN Raise("APIError",
               <<"Endpoint unavailable (status=", ToString(n.status_code),
                 "). URL: ", ENDPOINT>>)
    ELSE IF n.body.type = "undecodable"
    THEN Raise("JSONDecodeError", <<"Expecting value">>)
    ELSE Return(n.body)

\* Variant of check_response: no isinstance check of homeworks.
check_response_any_homeworks(response) ==
    IF response.type # "dict"
    THEN Raise("TypeError", <<"API response is not a dict, got type ", response.type>>)
    ELSE IF "homeworks" \notin response.keys
    THEN Raise("KeyError", <<"API response lacks the key homeworks">>)
    ELSE Return(response.homeworks.items)

\* check_response
check_response(response) ==
    IF response.type # "dict"
    THEN Raise("TypeError", <<"API response is not a dict, got type ", response.type>>)
    ELSE IF "homeworks" \notin response.keys
    THEN Raise("KeyError", <<"API response lacks the key homeworks">>)
    ELSE IF response.homeworks.type # "list"
    THEN Raise("TypeError",
               <<"homeworks in the API response is not a list, got type ",
                 response.homeworks.type>>)
    ELSE Return(response.homeworks.items)

\* Variant of parse_status: an unknown status gets the verdict of "reviewing".
parse_status_defaulting(homework) ==
    IF homework.type # "dict"
    THEN Raise("TypeError", <<"homework must be a dict, got type ", homework.type>>)
    ELSE LET required_keys == <<"homework_name", "status">>
             missing_keys == SelectSeq(required_keys, LAMBDA key : key \notin homework.keys)
         IN IF missing_keys # <<>>
            THEN Raise("KeyError", <<"API response lacks the keys: ">> \o Join(missing_keys))
            ELSE Return(<<"Review status changed for work \"", homework.homework_name,
                          "\". ",
                          IF homework.status \in DOMAIN HOMEWORK_VERDICTS
                          THEN HOMEWORK_VERDICTS[homework.status]
                          ELSE HOMEWORK_VERDICTS["reviewing"]>>)

\* parse_status
parse_status(homework) ==
    IF homework.type # "dict"
    THEN Raise("TypeError", <<"homework must be a dict, got type ", homework.type>>)
    ELSE LET required_keys == <<"homework_name", "status">>
             missing_keys == SelectSeq(required_keys, LAMBDA key : key \notin homework.keys)
         IN IF missing_keys # <<>>
            THEN Raise("KeyError", <<"API response lacks the keys: ">> \o Join(missing_keys))
            ELSE IF homework.status \notin DOMAIN HOMEWORK_VERDICTS
            THEN Raise("ValueError", <<"Unexpected homework status: ", homework.status>>)
            ELSE Return(<<"Review status changed for work \"", homework.homework_name,
                          "\". ", HOMEWORK_VERDICTS[homework.status]>>)

\* Variant of send_message: no try/except around the outbound call.
send_message_uncaught(message, bot) ==
    IF bot = "ok" THEN Return(TRUE) ELSE Raise(bot, <<bot>>)

\* send_message, undecorated: the outbound call and its try/except.
send_message(message, bot) ==
    IF bot = "ok" THEN Return(TRUE)
    ELSE IF bot \in {"ApiException", "RequestException"} THEN Return(FALSE)
    ELSE Raise(bot, <<bot>>)

----------------------------------------------------------------------------
\* src/decorators.py

\* One send_message call as the log keeps it: its text, whether it reached
\* bot.send_message (outbound), whether the channel accepted it, and what
\* the call gave back.
Entry(message, outbound, accepted, result, raised) ==
    [message |-> message, outbound |-> outbound, accepted |-> accepted,
     result |-> result, raised |-> raised]

\* Variant of wrapper: records the message whatever the send returned.
wrapper_always_recording(last, message, bot) ==
    IF Some(message) = last
    THEN [raised |-> FALSE, result |-> TRUE, last |-> last,
          entry |-> Entry(message, FALSE, FALSE, TRUE, FALSE)]
    ELSE LET result == send_message(message, bot)
         IN IF result.raised
            THEN [raised |-> TRUE, result |-> FALSE, last |-> last, exc |-> result.exc,
                  entry |-> Entry(message, TRUE, bot = "ok", FALSE, TRUE)]
            ELSE [raised |-> FALSE, result |-> result.value, last |-> Some(message),
                  entry |-> Entry(message, TRUE, bot = "ok", result.value, FALSE)]

\* Variant of wrapper: no comparison with last_message.
wrapper_never_suppressing(last, message, bot) ==
    LET result == send_message(message, bot)
    IN IF result.raised
       THEN [raised |-> TRUE, result |-> FALSE, last |-> last, exc |-> result.exc,
             entry |-> Entry(message, TRUE, bot = "ok", FALSE, TRUE)]
       ELSE [raised |-> FALSE, result |-> result.value,
             last |-> IF result.value THEN Some(message) ELSE last,
             entry |-> Entry(message, TRUE, bot = "ok", result.value, FALSE)]

\* prevent_duplicate_messages.wrapper: the decorated send_message.  last is
\* the nonlocal last_message before the call, bot what the channel does if
\* it is reached.
wrapper(last, message, bot) ==
    IF Some(message) = last
    THEN [raised |-> FALSE, result |-> TRUE, last |-> last,
          entry |-> Entry(message, FALSE, FALSE, TRUE, FALSE)]
    ELSE LET result == send_message(message, bot)
         IN IF result.raised
            THEN [raised |-> TRUE, result |-> FALSE, last |-> last, exc |-> result.exc,
                  entry |-> Entry(message, TRUE, bot = "ok", FALSE, TRUE)]
            ELSE [raised |-> FALSE, result |-> result.value,
                  last |-> IF result.value THEN Some(message) ELSE last,
                  entry |-> Entry(message, TRUE, bot = "ok", result.value, FALSE)]

----------------------------------------------------------------------------
\* src/homework.py: one poll cycle

\* What a check_homework_status call leaves: whether an exception left it,
\* the returned timestamp, last_message afterwards, the send_message calls
\* it made, and the return statement it took.
Outcome(raised, ts, last, log, via) ==
    [raised |-> raised, timestamp |-> ts, last |-> last, log |-> log, via |-> via]

\* Variant of first_homework: homeworks[-1].
first_homework_last(homeworks) == homeworks[Len(homeworks)]

\* homeworks[0]
first_homework(homeworks) == homeworks[1]

\* Variant of return_on_empty: advances to current_date like the final return.
return_on_empty_advancing(response, ts) ==
    IF "current_date" \in response.keys THEN response.current_date ELSE ts

\* return timestamp, for an empty homeworks list
return_on_empty(response, ts) == ts

\* Variant of return_on_unsent: advances although the send failed.
return_on_unsent_advancing(response, ts) ==
    IF "current_date" \in response.keys THEN response.current_date ELSE ts

\* return timestamp, when send_message gave False
return_on_unsent(response, ts) == ts

\* Variant of return_on_sent: ignores current_date.
return_on_sent_holding(response, ts) == ts

\* return response.get('current_date', timestamp)
return_on_sent(response, ts) ==
    IF "current_date" \in response.keys THEN response.current_date ELSE ts

\* Variant of the except clause: returns without notifying.
except_clause_silent(ts, last, error, log, bot) ==
    Outcome(FALSE, ts, last, log, "except")

\* The except clause: notify the failure, return timestamp.  An exception
\* raised by that send_message call leaves the function.
except_clause(ts, last, error, log, bot) ==
    LET sent == wrapper(last, <<"Program failure: ">> \o Str(error), bot)
    IN Outcome(sent.raised, ts, sent.last, Append(log, sent.entry), "except")

\* check_homework_status.  bots[k] is what the k-th outbound call of the
\* cycle meets.
check_homework_status(ts, last, n, bots) ==
    LET response == get_api_answer(ts, n)
    IN IF response.raised THEN except_clause(ts, last, response.exc, <<>>, bots[1])
       ELSE
    LET homeworks == check_response(response.value)
    IN IF homeworks.raised THEN except_clause(ts, last, homeworks.exc, <<>>, bots[1])
       ELSE IF homeworks.value = <<>>
       THEN Outcome(FALSE, return_on_empty(response.value, ts), last, <<>>, "empty")
       ELSE
    LET message == parse_status(first_homework(homeworks.value))
    IN IF message.raised THEN except_clause(ts, last, message.exc, <<>>, bots[1])
       ELSE
    LET sent == wrapper(last, message.value, bots[1])
    IN IF sent.raised
       THEN except_clause(ts, sent.last, sent.exc, <<sent.entry>>, bots[2])
       ELSE IF ~sent.result
       THEN Outcome(FALSE, return_on_unsent(response.value, ts), sent.last,
                    <<sent.entry>>, "unsent")
       ELSE Outcome(FALSE, return_on_sent(response.value, ts), sent.last,
                    <<sent.entry>>, "sent")

----------------------------------------------------------------------------
\* State machine

NoPending == [waiting |-> FALSE, item |-> StrItem, cursor |-> Unbound]

Init ==
    /\ pc = "start"
    /\ env \in [TokenNames -> EnvValues]
    /\ timestamp = Unbound
    /\ last_message = NoMessage
    /\ delivered = NoMessage
    /\ prev = Unbound
    /\ prevLast = NoMessage
    /\ net = NoNet
    /\ notifies = <<>>
    /\ pending = NoPending
    /\ calls = <<>>

\* main() up to the loop: check_tokens(), then timestamp = int(time.time()).
Main ==
    /\ pc = "start"
    /\ IF check_tokens(env).raised
       THEN pc' = "exited" /\ UNCHANGED timestamp
       ELSE pc' = "polling" /\ timestamp' \in Times
    /\ UNCHANGED <<env, last_message, delivered, prev, prevLast, net, notifies,
                   pending, calls>>

\* The text of the last call of a log the channel accepted, if any.
RECURSIVE LastAccepted(_, _)
LastAccepted(log, before) ==
    IF log = <<>> THEN before
    ELSE IF log[Len(log)].accepted THEN Some(log[Len(log)].message)
    ELSE LastAccepted(SubSeq(log, 1, Len(log) - 1), before)

\* timestamp = check_homework_status(bot, timestamp), with the network
\* outcome drawn from nets; track says whether pending is kept.
Cycle(nets, firstBots, track) ==
    /\ pc = "polling"
    /\ prev' = timestamp
    /\ prevLast' = last_message
    /\ \E n \in nets :
         /\ net' = n
         /\ \E b1 \in firstBots :
              \E b2 \in (IF Len(check_homework_status(timestamp, last_message, n,
                                                      <<b1, b1>>).log) > 1
                         THEN BotOutcomes ELSE {b1}) :
                LET r == check_homework_status(timestamp, last_message, n, <<b1, b2>>)
                IN /\ notifies' = r.log
                   /\ pc' = IF r.raised THEN "crashed" ELSE "sleeping"
                   /\ timestamp' = IF r.raised THEN timestamp ELSE r.timestamp
                   /\ last_message' = r.last
                   /\ delivered' = LastAccepted(r.log, delivered)
                   /\ pending' = IF ~track THEN pending
                                 ELSE IF r.via = "unsent"
                                 THEN [waiting |-> TRUE,
                                       item |-> n.body.homeworks.items[1],
                                       cursor |-> timestamp]
                                 ELSE NoPending
    /\ UNCHANGED <<env, calls>>

CheckHomeworkStatus == Cycle(NetOutcomes, BotOutcomes, FALSE)

\* time.sleep(RETRY_PERIOD); the record of the finished cycle is dropped.
Sleep ==
    /\ pc = "sleeping"
    /\ pc' = "polling"
    /\ prev' = Unbound
    /\ prevLast' = NoMessage
    /\ net' = NoNet
    /\ notifies' = <<>>
    /\ UNCHANGED <<env, timestamp, last_message, delivered, pending, calls>>

Next == Main \/ CheckHomeworkStatus \/ Sleep

Spec == Init /\ [][Next]_vars

\* The loop of main() keeps running: every call it makes returns.
FairSpec ==
    Spec /\ WF_vars(Main) /\ WF_vars(CheckHomeworkStatus) /\ WF_vars(Sleep)

\* The poll loop against an API that keeps returning, for the cursor it is
\* asked with, the item whose notification failed, and a messaging channel
\* that eventually succeeds.  Responses carry at most one item here: the
\* items after the first are never read.
RetryNets == {n \in NetOutcomes : Len(n.body.homeworks.items) <= 1}

StableNets ==
    IF pending.waiting
    THEN {n \in RetryNets :
            /\ n.kind = "reply" /\ n.status_code = HTTP_OK
            /\ n.body.type = "dict" /\ "homeworks" \in n.body.keys
            /\ n.body.homeworks.type = "list"
            /\ n.body.homeworks.items = <<pending.item>>}
    ELSE RetryNets

RetryCycle == Cycle(StableNets, BotOutcomes, TRUE)
RetryCycleChannelUp == Cycle(StableNets, {"ok"}, TRUE)

RetryNext == Main \/ RetryCycle \/ Sleep

RetrySpec ==
    /\ Init /\ [][RetryNext]_vars
    /\ WF_vars(Main) /\ WF_vars(RetryCycle) /\ WF_vars(Sleep)
    /\ SF_vars(RetryCycleChannelUp)

\* send_message called directly, with any text the program composes.
Messages ==
    {check_homework_status(t, NoMessage, n, <<"ok", "ok">>).log[1].message :
        t \in Times \cup {Null},
        n \in {m \in NetOutcomes :
                 check_homework_status(Null, NoMessage, m, <<"ok", "ok">>).log # <<>>}}

NotifierInit == Init /\ env = [key \in TokenNames |-> "secret"]

Notify ==
    /\ pc = "start"
    /\ \E message \in Messages, bot \in BotOutcomes :
         LET r == wrapper(last_message, message, bot)
             call == [message |-> message, before |-> last_message,
                      outbound |-> r.entry.outbound, accepted |-> r.entry.accepted,
                      result |-> r.result, raised |-> r.raised]
         IN /\ last_message' = r.last
            /\ delivered' = IF r.entry.accepted THEN Some(message) ELSE delivered
            /\ calls' = IF calls = <<>> THEN <<call>> ELSE <<calls[Len(calls)], call>>
    /\ UNCHANGED <<pc, env, timestamp, prev, prevLast, net, notifies, pending>>

NotifierSpec == NotifierInit /\ [][Notify]_vars

----------------------------------------------------------------------------
\* Vocabulary of the properties.  The steps of a cycle are classified from
\* what the network supplied, not from what the functions above computed.

AfterCycle == pc \in {"sleeping", "crashed"}

\* fetch succeeded: a reply with status 200 and a decodable body.
FetchSucceeded ==
    net.kind = "reply" /\ net.status_code = 200 /\ net.body.type # "undecodable"

\* validate succeeded: a mapping whose homeworks field is a sequence.
ValidateSucceeded ==
    /\ FetchSucceeded
    /\ net.body.type = "dict"
    /\ "homeworks" \in net.body.keys
    /\ net.body.homeworks.type = "list"

ResponseItems == net.body.homeworks.items
HasCurrentDate == "current_date" \in net.body.keys
CurrentDate == net.body.current_date

\* interpret succeeds on an item: a mapping with both fields and a status
\* that is one of the three canonical keys.
Interpretable(item) ==
    /\ item.type = "dict"
    /\ {"homework_name", "status"} \subseteq item.keys
    /\ item.status \in {"approved", "reviewing", "rejected"}

InterpretSucceeded ==
    ValidateSucceeded /\ ResponseItems # <<>> /\ Interpretable(ResponseItems[1])

\* fetch, validate or interpret failed.
StepFailed ==
    \/ ~FetchSucceeded
    \/ ~ValidateSucceeded
    \/ ResponseItems # <<>> /\ ~Interpretable(ResponseItems[1])

\* The outbound messaging calls of the cycle.
Outbound == SelectSeq(notifies, LAMBDA e : e.outbound)

\* The cursor the spec's rule "next-cursor field if present, else hold" gives.
NextCursorOrHold == IF HasCurrentDate THEN CurrentDate ELSE prev

----------------------------------------------------------------------------
\* C1: over any sequence of poll cycles and any API responses, the value
\* check_homework_status returns is greater than or equal to the value
\* passed in: the cursor never decreases.
C1_CursorNeverDecreases ==
    (AfterCycle /\ prev.type = "int" /\ timestamp.type = "int")
        => timestamp.val >= prev.val

\* C2 as stated: in a cycle where fetch succeeds and validate yields an
\* empty sequence, no notify call is made and the cursor becomes the
\* response's current_date when present, and stays when it is absent.
C2_EmptyAdvancesToCurrentDate ==
    (AfterCycle /\ ValidateSucceeded /\ ResponseItems = <<>>)
        => (notifies = <<>> /\ timestamp = NextCursorOrHold)

\* C2 amended: in a cycle where fetch succeeds and validate yields an empty
\* sequence, no notify call is made and the cursor after the cycle equals
\* the cursor before it, whether or not the response carries current_date.
C2_EmptyHoldsCursor ==
    (AfterCycle /\ ValidateSucceeded /\ ResponseItems = <<>>)
        => (pc = "sleeping" /\ notifies = <<>> /\ timestamp = prev
            /\ last_message = prevLast)

C2_Witness ==
    /\ pc = "sleeping" /\ ValidateSucceeded /\ ResponseItems = <<>>
    /\ HasCurrentDate /\ CurrentDate # prev /\ timestamp = prev

\* C3: in a cycle where fetch, validate and interpret succeed but notify
\* reports failure, the cursor after the cycle equals the cursor before it,
\* whatever the response's current_date.
C3_NotifyFailureHoldsCursor ==
    (AfterCycle /\ InterpretSucceeded /\ notifies # <<>> /\ ~notifies[1].result)
        => (pc = "sleeping" /\ timestamp = prev)

C3_Witness ==
    /\ pc = "sleeping" /\ InterpretSucceeded
    /\ Len(notifies) = 1 /\ notifies[1].outbound /\ ~notifies[1].result
    /\ HasCurrentDate /\ CurrentDate # prev /\ timestamp = prev

\* The message interpret gives for an item, per the spec's format: the
\* item's name and the verdict bound to its status.
CarriesVerdictOf(message, item) ==
    /\ Len(message) = 4
    /\ message[2] = item.homework_name
    /\ message[4] = HOMEWORK_VERDICTS[item.status]

\* C4: in a cycle where fetch, validate and interpret succeed on a
\* non-empty sequence and notify reports success (by a real send or by a
\* duplicate-suppressed no-op), the cursor after the cycle is the response's
\* current_date when present and the prior cursor when absent; when the
\* message was not a duplicate, exactly one outbound message, carrying the
\* first item's verdict text, is sent in the cycle.
C4_NotifySuccessAdvances ==
    (AfterCycle /\ InterpretSucceeded /\ notifies # <<>> /\ notifies[1].result)
        => /\ pc = "sleeping"
           /\ timestamp = NextCursorOrHold
           /\ Len(notifies) = 1
           /\ CarriesVerdictOf(notifies[1].message, ResponseItems[1])
           /\ IF Some(notifies[1].message) = prevLast
              THEN Outbound = <<>>
              ELSE Outbound = notifies /\ notifies[1].accepted

C4_Witness ==
    /\ pc = "sleeping" /\ InterpretSucceeded
    /\ Len(Outbound) = 1 /\ notifies[1].result /\ notifies[1].accepted
    /\ ResponseItems[1].status = "rejected"
    /\ HasCurrentDate /\ CurrentDate # prev /\ timestamp = CurrentDate

\* The kind of failure of the cycle's first failing step, and the leading
\* literal of the description the failing function gives it.
FailureLead ==
    IF net.kind = "RequestException" THEN "API request error: "
    ELSE IF net.status_code # 200 THEN "Endpoint unavailable (status="
    ELSE IF net.body.type = "undecodable" THEN "Expecting value"
    ELSE IF net.body.type # "dict" THEN "API response is not a dict, got type "
    ELSE IF "homeworks" \notin net.body.keys THEN "API response lacks the key homeworks"
    ELSE IF net.body.homeworks.type # "list"
    THEN "homeworks in the API response is not a list, got type "
    ELSE IF ResponseItems[1].type # "dict" THEN "homework must be a dict, got type "
    ELSE IF ~({"homework_name", "status"} \subseteq ResponseItems[1].keys)
    THEN "API response lacks the keys: "
    ELSE "Unexpected homework status: "

\* The message is the failure prefix followed by a description that holds lead.
EmbedsDescription(message, lead) ==
    /\ Len(message) >= 2
    /\ message[1] = "Program failure: "
    /\ \E i \in 2..Len(message) : message[i] = lead

\* C5: in a cycle where fetch, validate or interpret fails, the poll loop
\* attempts exactly one notify call, whose message embeds the error
\* description, and the cursor after the cycle equals the cursor before it,
\* whether or not that notify call delivers.
C5_FailureNotifiesOnceHoldsCursor ==
    (AfterCycle /\ StepFailed)
        => /\ pc = "sleeping"
           /\ Len(notifies) = 1
           /\ EmbedsDescription(notifies[1].message, FailureLead)
           /\ timestamp = prev

C5_Witness ==
    /\ pc = "sleeping" /\ net.kind = "RequestException"
    /\ Len(notifies) = 1 /\ notifies[1].outbound /\ ~notifies[1].result
    /\ EmbedsDescription(notifies[1].message, "API request error: ")
    /\ timestamp = prev

\* C6: once the loop has been entered nothing propagates out of a cycle:
\* for every outcome of fetch, validate, interpret and notify, a failing
\* messaging call made from the failure handler included, the cycle
\* completes and is followed by the sleep and the next cycle, forever.
\* Every run either ends before the loop (the start-up check failed) or
\* is infinitely often at the start of a cycle and infinitely often asleep
\* after one.
C6_NothingPropagates ==
    \/ <>[](pc = "exited")
    \/ []<>(pc = "polling") /\ []<>(pc = "sleeping")

C6_Witness ==
    /\ pc = "sleeping" /\ StepFailed
    /\ Len(notifies) = 1 /\ notifies[1].outbound /\ ~notifies[1].accepted
    /\ timestamp.type = "int"

\* C7 as stated: two send_message calls in a row with the same text make
\* exactly one outbound messaging call, both report success, and
\* last_message equals that text after both.
C7_TwiceSameTextOneOutbound ==
    (Len(calls) = 2 /\ calls[1].message = calls[2].message)
        => /\ Len(SelectSeq(calls, LAMBDA c : c.outbound)) = 1
           /\ calls[1].result /\ calls[2].result
           /\ last_message = Some(calls[2].message)

\* C7 amended: of two send_message calls in a row with the same text, when
\* the first reports success the second makes no outbound call and reports
\* success, the two calls make exactly one outbound call if the text
\* differed from last_message before the first call and none if it was
\* equal, and last_message equals the text after both; when the first
\* reports failure the second makes a new outbound attempt.
C7_TwiceSameTextSuppressed ==
    (Len(calls) = 2 /\ calls[1].message = calls[2].message)
        => IF calls[1].result
           THEN /\ calls[2].result /\ ~calls[2].outbound
                /\ calls[1].outbound = (calls[1].before # Some(calls[1].message))
                /\ calls[1].outbound => calls[1].accepted
                /\ last_message = Some(calls[2].message)
           ELSE calls[1].outbound /\ calls[2].outbound

C7_Witness ==
    /\ Len(calls) = 2 /\ calls[1].message = calls[2].message
    /\ calls[1].outbound /\ calls[1].accepted /\ calls[1].result
    /\ ~calls[2].outbound /\ calls[2].result
    /\ last_message = Some(calls[2].message)

\* C8: after any sequence of send_message calls last_message is unset (no
\* send has succeeded yet) or the text of the most recent outbound call
\* that succeeded; a call whose outbound send fails and a
\* duplicate-suppressed call both leave last_message unchanged.
C8_LastMessageIsLastDelivered ==
    /\ last_message = delivered
    /\ (calls # <<>> /\ ~calls[Len(calls)].accepted)
           => last_message = calls[Len(calls)].before

C8_Witness ==
    /\ Len(calls) = 2
    /\ calls[1].accepted
    /\ calls[2].outbound /\ ~calls[2].accepted /\ ~calls[2].result
    /\ calls[2].message # calls[1].message
    /\ last_message = Some(calls[1].message)

\* The response of the cycle cut down to its first item.
FirstItemOnly ==
    [net EXCEPT !.body.homeworks.items = <<ResponseItems[1]>>]

\* C9: every poll cycle makes at most one outbound messaging call, and of a
\* response holding several items only the first decides the message: the
\* response cut down to its first item, with the same current_date, leads
\* to the same notify call and the same cursor.
C9_AtMostOneNotificationFirstItemOnly ==
    AfterCycle
        => /\ Len(Outbound) <= 1
           /\ Len(notifies) <= 1
           /\ (ValidateSucceeded /\ ResponseItems # <<>>)
                  => \E b \in BotOutcomes :
                        LET r == check_homework_status(prev, prevLast, FirstItemOnly,
                                                       <<b, b>>)
                        IN /\ r.log = notifies
                           /\ r.timestamp = timestamp
                           /\ r.last = last_message

C9_Witness ==
    /\ pc = "sleeping" /\ InterpretSucceeded
    /\ Len(ResponseItems) >= 2 /\ ResponseItems[2] # ResponseItems[1]
    /\ ~Interpretable(ResponseItems[2])
    /\ Len(Outbound) = 1 /\ notifies[1].accepted
    /\ CarriesVerdictOf(notifies[1].message, ResponseItems[1])

\* The status message interpret composes for an item.
StatusMessage(item) ==
    <<"Review status changed for work \"", item.homework_name, "\". ",
      HOMEWORK_VERDICTS[item.status]>>

\* C10: if notify fails for a status message in some cycle, the next cycle
\* fetches with the same cursor, the same item is re-evaluated and its
\* message is attempted again rather than skipped; with an API that keeps
\* returning that item for that cursor and a messaging channel that
\* eventually succeeds, the message is eventually delivered.  pending is
\* set by the failed notification and stays set while the retries fail: it
\* is cleared only by the cycle that delivers the message, and it does not
\* stay set forever.
C10_FailedNotificationRetried ==
    /\ [][(pending.waiting /\ pc = "polling" /\ pc' # "polling")
             => /\ prev' = pending.cursor
                /\ Len(notifies') = 1
                /\ notifies'[1].message = StatusMessage(pending.item)
                /\ notifies'[1].outbound]_vars
    /\ [][(pending.waiting /\ ~pending'.waiting)
             => delivered' = Some(StatusMessage(pending.item))]_vars
    /\ []<>(~pending.waiting)

C10_Witness ==
    /\ pc = "sleeping"
    /\ pending.waiting
    /\ prevLast.some
    /\ Len(notifies) = 1 /\ notifies[1].outbound /\ ~notifies[1].accepted
    /\ notifies[1].message = StatusMessage(pending.item)
    /\ HasCurrentDate /\ CurrentDate # prev /\ timestamp = pending.cursor

\* C11: when the same failure, with the same error description, occurs in
\* consecutive cycles and the first failure notification was delivered, the
\* later cycles make no outbound messaging call: the repeated failure
\* message is suppressed as a duplicate until a different message is
\* delivered.  A delivered failure notification is last_message when the
\* next cycle starts, and a failing cycle whose message is last_message
\* makes its one notify call without an outbound call and leaves
\* last_message as it was.
C11_RepeatedFailureSuppressed ==
    /\ [][(pc = "sleeping" /\ StepFailed /\ notifies # <<>> /\ notifies[1].accepted)
             => (pc' = "polling" /\ last_message' = Some(notifies[1].message))]_vars
    /\ []((AfterCycle /\ StepFailed /\ notifies # <<>>
             /\ prevLast = Some(notifies[1].message))
            => /\ Len(notifies) = 1
               /\ Outbound = <<>>
               /\ notifies[1].result
               /\ last_message = prevLast
               /\ delivered = prevLast)

C11_Witness ==
    /\ pc = "sleeping" /\ net.kind = "RequestException"
    /\ Len(notifies) = 1
    /\ EmbedsDescription(notifies[1].message, "API request error: ")
    /\ prevLast = Some(notifies[1].message)
    /\ ~notifies[1].outbound /\ notifies[1].result
    /\ timestamp = prev

\* A required configuration value is missing or empty.
ConfigIncomplete == \E key \in TokenNames : env[key] = "<unset>" \/ env[key] = ""

\* C12: if any of the three required configuration values is missing or
\* empty at startup, the process fails before entering the loop: no fetch
\* and no notify call is ever made.
C12_MissingConfigNeverEntersLoop ==
    ConfigIncomplete
        => /\ pc \in {"start", "exited"}
           /\ timestamp = Unbound
           /\ net = NoNet /\ prev = Unbound
           /\ notifies = <<>>
           /\ last_message = NoMessage /\ delivered = NoMessage

C12_Witness ==
    /\ pc = "exited"
    /\ env["PRACTICUM_TOKEN"] = "secret" /\ env["TELEGRAM_TOKEN"] = "secret"
    /\ env["TELEGRAM_CHAT_ID"] = ""
    /\ net = NoNet /\ notifies = <<>>

\* An item with both fields whose status is none of the three canonical keys.
UnknownStatusItem(item) ==
    /\ item.type = "dict"
    /\ {"homework_name", "status"} \subseteq item.keys
    /\ item.status \notin {"approved", "reviewing", "rejected"}

\* C13: for every item whose status is not one of approved, reviewing,
\* rejected, parse_status fails with a domain error (ValueError naming the
\* status) instead of returning a message, and the cursor after that cycle
\* is unchanged from before the call.
C13_UnknownStatusIsDomainError ==
    /\ \A item \in Items :
          UnknownStatusItem(item)
              => /\ parse_status(item).raised
                 /\ parse_status(item).exc.type = "ValueError"
                 /\ parse_status(item).exc.text =
                        <<"Unexpected homework status: ", item.status>>
    /\ (AfterCycle /\ ValidateSucceeded /\ ResponseItems # <<>>
          /\ UnknownStatusItem(ResponseItems[1]))
           => /\ pc = "sleeping"
              /\ timestamp = prev
              /\ Len(notifies) = 1
              /\ notifies[1].message =
                     <<"Program failure: ", "Unexpected homework status: ",
                       ResponseItems[1].status>>

C13_Witness ==
    /\ pc = "sleeping" /\ ValidateSucceeded /\ ResponseItems # <<>>
    /\ UnknownStatusItem(ResponseItems[1]) /\ ResponseItems[1].status = "Approved"
    /\ HasCurrentDate /\ CurrentDate # prev /\ timestamp = prev
    /\ Len(notifies) = 1 /\ notifies[1].accepted

\* The response is not a mapping, lacks the homeworks field, or has a
\* homeworks field that is not a sequence.
Malformed(response) ==
    \/ response.type # "dict"
    \/ "homeworks" \notin response.keys
    \/ response.homeworks.type # "list"

\* The leading literals of the three shape errors of check_response.
ShapeErrorLeads ==
    {"API response is not a dict, got type ",
     "API response lacks the key homeworks",
     "homeworks in the API response is not a list, got type "}

\* C14: check_response fails with a shape error (TypeError or KeyError)
\* exactly when the response is not a mapping, lacks the homeworks field,
\* or has a homeworks field that is not a sequence, and otherwise returns
\* the items unchanged; when it fails, the failure is caught by the poll
\* loop, whose one notify call reports that shape error and no item's
\* status or item error, and the cursor is held.
C14_ValidateShapeErrors ==
    /\ \A response \in Bodies \ {Undecodable} :
          IF Malformed(response)
          THEN /\ check_response(response).raised
               /\ check_response(response).exc.type \in {"TypeError", "KeyError"}
               /\ check_response(response).exc.text[1] \in ShapeErrorLeads
          ELSE /\ ~check_response(response).raised
               /\ check_response(response).value = response.homeworks.items
    /\ (AfterCycle /\ FetchSucceeded /\ Malformed(net.body))
           => /\ pc = "sleeping"
              /\ timestamp = prev
              /\ Len(notifies) = 1
              /\ notifies[1].message[1] = "Program failure: "
              /\ \E lead \in ShapeErrorLeads :
                    EmbedsDescription(notifies[1].message, lead)
              /\ ~EmbedsDescription(notifies[1].message, "homework must be a dict, got type ")
              /\ ~EmbedsDescription(notifies[1].message, "API response lacks the keys: ")
              /\ ~EmbedsDescription(notifies[1].message, "Unexpected homework status: ")

C14_Witness ==
    /\ pc = "sleeping" /\ FetchSucceeded
    /\ net.body.type = "dict" /\ "homeworks" \notin net.body.keys
    /\ "current_date" \in net.body.keys
    /\ Len(notifies) = 1
    /\ EmbedsDescription(notifies[1].message, "API response lacks the key homeworks")
    /\ timestamp = prev /\ CurrentDate # prev

\* C15: every outbound API request carries an integer cursor, also after
\* the cursor has been advanced from a response's current_date field: a
\* cycle in which get_api_answer reached the network (a transport failure
\* or a reply was met) was entered with an integer cursor, because a
\* non-numeric cursor fails with a type error before any network call.
C15_RequestsCarryIntegerCursor ==
    (AfterCycle /\ net.kind # "none") => prev.type = "int"

\* The text the channel accepted last before the i-th send_message call
\* of a log, given the one accepted last before the log began.
AcceptedBefore(log, i, before) == LastAccepted(SubSeq(log, 1, i - 1), before)

\* C16: over any sequence of poll cycles no two consecutive successful
\* outbound messaging calls carry the same text (a call the channel
\* accepts differs in text from the call it accepted last before, in this
\* cycle or an earlier one), and every outbound call is made with a text
\* that differs from last_message at the moment of the call.
C16_NoConsecutiveEqualOutbound ==
    /\ [][pc = "polling"
            => \A i \in 1..Len(notifies') :
                  notifies'[i].accepted
                     => Some(notifies'[i].message) # AcceptedBefore(notifies', i, delivered)]_vars
    /\ [](AfterCycle
            => \A i \in 1..Len(notifies) :
                  notifies[i].outbound
                     => Some(notifies[i].message) # AcceptedBefore(notifies, i, prevLast))

C16_Witness ==
    /\ pc = "sleeping"
    /\ prevLast.some
    /\ Len(notifies) = 1
    /\ notifies[1].outbound /\ notifies[1].accepted
    /\ Some(notifies[1].message) # prevLast
    /\ notifies[1].message[1] = prevLast.text[1]
    /\ last_message = Some(notifies[1].message)

\* The one kind of cycle in which the cursor can change: fetch, validate
\* and interpret succeeded on a non-empty sequence, notify reported
\* success, and the response contains current_date.
CursorMayChange ==
    /\ InterpretSucceeded
    /\ notifies # <<>> /\ notifies[1].result
    /\ HasCurrentDate

\* C17: the cursor can change only in a cycle where fetch, validate and
\* interpret succeeded on a non-empty item sequence, notify reported
\* success and the response contains current_date, and then it becomes
\* that current_date; in every other cycle (a failed step, an empty
\* sequence, a failed notify, no current_date) the cursor after the cycle
\* equals the cursor before it, and the sleep between two cycles leaves
\* the cursor alone.
C17_CursorChangesOnlyOnFullSuccess ==
    /\ [](AfterCycle
            => /\ timestamp # prev => (CursorMayChange /\ timestamp = CurrentDate)
               /\ ~CursorMayChange => timestamp = prev
               /\ StepFailed => timestamp = prev
               /\ (ValidateSucceeded /\ ResponseItems = <<>>) => timestamp = prev
               /\ (notifies # <<>> /\ ~notifies[1].result) => timestamp = prev
               /\ (FetchSucceeded /\ ~HasCurrentDate) => timestamp = prev)
    /\ [][pc = "sleeping" => timestamp' = timestamp]_vars

C17_Witness ==
    /\ pc = "sleeping"
    /\ timestamp # prev /\ timestamp = CurrentDate
    /\ CursorMayChange
    /\ Len(notifies) = 1 /\ ~notifies[1].outbound
    /\ ResponseItems[1].status = "reviewing"

====
